---- MODULE Spec2Model ----
(***************************************************************************)
(* looksy-backend: the try-on relay.                                       *)
(*                                                                         *)
(*   parseDataUri            the data-URI codec          (server.js)       *)
(*   validateExtension       the caller allow-list       (server.js)       *)
(*   POST /api/extension/tryon  the request handler      (server.js)       *)
(*   generateOverlayedImage  the synthesis client, with its retry loop     *)
(*                           (services/gemini.js)                          *)
(*                                                                         *)
(* The specifications share the variables:                                 *)
(*   SpecCodec  parseDataUri applied to one input string;                  *)
(*   SpecSynth  one invocation of generateOverlayedImage against every     *)
(*              sequence of answers of the external service;               *)
(*   Spec       one try-on request from arrival to its response;           *)
(*   FairSpec   Spec, every pending step being taken in the end;           *)
(*   SpecSimple one try-on request to the second, simpler server.          *)
(***************************************************************************)
EXTENDS Integers, Sequences, FiniteSets, TLC

VARIABLES
    dataUri,      \* SpecCodec: the argument given to parseDataUri
    parsed,       \* SpecCodec: <<what parseDataUri returned or threw>>, <<>> before the call
    apiKey,       \* process.env.GEMINI_API_KEY is set
    api,          \* the external service during the invocation: api[k] is its
                  \*   answer to the k-th call (<<>> before the invocation)
    gPc,          \* generateOverlayedImage: "idle", "fetch" (a call is in flight),
                  \*   "backoff" (waiting for the delay), "returned", "thrown"
    attempt,      \* its loop counter
    lastError,    \* its lastError
    apiCalls,     \* external calls issued so far
    inFlight,     \* external calls issued and not yet ended
    delays,       \* the delays waited so far, in ms
    gResult,      \* what it returned or threw
    envIds,       \* process.env.CHROME_EXTENSION_IDS
    hPc,          \* the try-on request: "idle" (not arrived), "handler", "studio",
                  \*   "validate", "fetching", "resolved", "synth", "done"
    req,          \* the fields of the request the code has used so far
    extensionId,  \* req.extensionId, set by validateExtension
    actualUserImage,
    userInlinePart,
    results,      \* the promises of the overlay fetches, by index
    settled,      \* the indices of the settled fetches, in the order they settled
                  \*   (kept until the handler leaves the overlay resolution)
    overlayInlineParts,
    decoded,      \* the arguments of the calls of parseDataUri, in order
    fetched,      \* the overlay URLs requested, in order
    invocations,  \* the overlay lists generateOverlayedImage was called with
    responses     \* the responses sent, in order

codecVars == <<dataUri, parsed>>
synthVars == <<apiKey, api, gPc, attempt, lastError, apiCalls, inFlight, delays, gResult>>
handlerVars == <<envIds, hPc, req, extensionId, actualUserImage, userInlinePart,
                 results, settled, overlayInlineParts, decoded, fetched,
                 invocations, responses>>

(***************************************************************************)
(* JavaScript strings.  A string is a sequence of tokens; a token is a     *)
(* piece of text s that is n characters long.  The literal pieces the      *)
(* codec looks for ("data:", ";", "base64,") are tokens of their own, a    *)
(* run of n base64 characters is the token B64(n), a line terminator is    *)
(* LF.  Only the ";" token holds a semicolon and only LF holds a line      *)
(* terminator, so the regular expression of parseDataUri can be run on     *)
(* tokens as it runs on characters.                                        *)
(***************************************************************************)
Lit(s, n) == [s |-> s, n |-> n]
DATA == Lit("data:", 5)
SEMI == Lit(";", 1)
B64TAG == Lit("base64,", 7)
COMMA == Lit(",", 1)
LF == Lit("LF", 1)
B64(n) == [s |-> "b64", n |-> n]

Str(toks) == [type |-> "string", toks |-> toks]
Undefined == [type |-> "undefined", toks |-> <<>>]
Number == [type |-> "number", toks |-> <<>>]

\* JavaScript truthiness of a value that is undefined, a string or a non-zero number.
Truthy(v) == v.type = "number" \/ (v.type = "string" /\ v.toks # <<>>)

RECURSIVE StrLen(_)
StrLen(toks) == IF toks = <<>> THEN 0 ELSE Head(toks).n + StrLen(Tail(toks))

\* String.prototype.toLowerCase on the text of one token.
LowerText(s) ==
    CASE s = "IMAGE/PNG" -> "image/png"
      [] s = "Image/Jpeg" -> "image/jpeg"
      [] s = "IMAGE/GIF" -> "image/gif"
      [] OTHER -> s

\* A plausible slip: the mime type compared as it was written.
toLowerCase_AsWritten(toks) == toks

toLowerCase(toks) == [i \in DOMAIN toks |-> Lit(LowerText(toks[i].s), toks[i].n)]

\* String.prototype.startsWith('data:')
startsWithData(toks) == Len(toks) >= 1 /\ toks[1] = DATA

(***************************************************************************)
(* The data-URI codec.                                                     *)
(***************************************************************************)
ALLOWED_MIME ==
    { <<Lit("image/jpeg", 10)>>, <<Lit("image/jpg", 9)>>, <<Lit("image/png", 9)>>,
      <<Lit("image/webp", 10)>>, <<Lit("image/avif", 10)>> }

MAX_DATAURI_BYTES == 8 * 1024 * 1024

MAX_REQUEST_SIZE == 25 * 1024 * 1024

ErrInvalidFormat == "Invalid data URI format"
ErrUnsupportedMime == "Unsupported mime type"
ErrTooLarge == "Image too large"

\* dataUri.match(/^data:([^;]+);base64,(.*)$/): group 1 is everything between
\* "data:" and the first ";", and is not empty; ";base64," follows it; group 2
\* is the rest, which holds no line terminator.
FirstSemi(toks) ==
    LET I == {i \in 1..Len(toks) : toks[i] = SEMI}
    IN  IF I = {} THEN 0 ELSE CHOOSE i \in I : \A j \in I : i <= j

DataUriMatch(toks) ==
    LET k == FirstSemi(toks)
    IN  IF /\ startsWithData(toks)
           /\ k >= 3
           /\ Len(toks) >= k + 1
           /\ toks[k + 1] = B64TAG
           /\ \A j \in (k + 2)..Len(toks) : toks[j] # LF
        THEN [matched |-> TRUE,
              g1 |-> SubSeq(toks, 2, k - 1),
              g2 |-> SubSeq(toks, k + 2, Len(toks))]
        ELSE [matched |-> FALSE, g1 |-> <<>>, g2 |-> <<>>]

Thrown(msg) == [ok |-> FALSE, error |-> msg, mimeType |-> <<>>, base64 |-> <<>>]
Parsed(mime, b64) == [ok |-> TRUE, error |-> "", mimeType |-> mime, base64 |-> b64]

\* Math.floor((base64Data.length * 3) / 4)
approxBytes(base64Data) == (StrLen(base64Data) * 3) \div 4

\* The limit of another check taken for the per-image limit.
IsTooLarge_RequestLimit(base64Data) == approxBytes(base64Data) > MAX_REQUEST_SIZE

IsTooLarge(base64Data) == approxBytes(base64Data) > MAX_DATAURI_BYTES

parseDataUri(v) ==
    IF ~Truthy(v) \/ v.type # "string"
    THEN Thrown(ErrInvalidFormat)
    ELSE LET match == DataUriMatch(v.toks)
             mimeType == toLowerCase(match.g1)
             base64Data == match.g2
         IN  IF ~match.matched THEN Thrown(ErrInvalidFormat)
             ELSE IF mimeType \notin ALLOWED_MIME THEN Thrown(ErrUnsupportedMime)
             ELSE IF IsTooLarge(base64Data) THEN Thrown(ErrTooLarge)
             ELSE Parsed(mimeType, base64Data)

(***************************************************************************)
(* The strings the codec is given.                                         *)
(***************************************************************************)
\* The longest payload whose estimate does not exceed MAX_DATAURI_BYTES.
MaxOkLen == (4 * MAX_DATAURI_BYTES + 3) \div 3

\* Payload lengths are taken within Slack of the limit, and at SmallLen.
Slack == 2
SmallLen == 8

PayloadLens == {SmallLen} \cup ((MaxOkLen - Slack)..(MaxOkLen + Slack))

MimeInputs ==
    { Lit("image/jpeg", 10), Lit("image/jpg", 9), Lit("image/png", 9),
      Lit("image/webp", 10), Lit("image/avif", 10),
      Lit("IMAGE/PNG", 9), Lit("Image/Jpeg", 10),
      Lit("image/gif", 9), Lit("IMAGE/GIF", 9), Lit("text/html", 9) }

\* data:<mime>;base64,<payload>, the payload a run of base64 characters.
DataUriOf(mime, len) ==
    Str(<<DATA, mime, SEMI, B64TAG>> \o (IF len = 0 THEN <<>> ELSE <<B64(len)>>))

WellShaped == {DataUriOf(m, n) : m \in MimeInputs, n \in PayloadLens \cup {0}}

\* Strings that are not of that shape.
Malformed ==
    UNION { { Str(<<m, SEMI, B64TAG, B64(n)>>),
              Str(<<DATA, SEMI, B64TAG, B64(n)>>),
              Str(<<DATA, m, SEMI, Lit("charset=utf-8", 13), SEMI, B64TAG, B64(n)>>),
              Str(<<DATA, m, COMMA, B64(n)>>),
              Str(<<DATA, m, SEMI, B64TAG, B64(n), LF, B64(SmallLen)>>),
              Str(<<DATA, m, SEMI, B64TAG, B64(SmallLen), SEMI, B64TAG, B64(n)>>) }
            : m \in {Lit("image/png", 9), Lit("image/gif", 9)},
              n \in {SmallLen, MaxOkLen + 1} }

DataUriInputs == WellShaped \cup Malformed \cup {Undefined, Number, Str(<<>>)}

(***************************************************************************)
(* The synthesis client: generateOverlayedImage.                           *)
(***************************************************************************)
\* A plausible slip: one attempt more.
maxRetries_Four == 3 + 1

maxRetries == 3

\* A plausible slip: the base delay doubled.
baseDelay_Doubled == 2 * 1000

baseDelay == 1000

\* An answer of the external service: an HTTP response, whose body is named by
\* what the client looks for in it, or no response within the 30 s timeout.
Response(status, body) == [kind |-> "response", status |-> status, body |-> body]
Timeout == [kind |-> "timeout", status |-> 0, body |-> ""]

ApiOutcomes ==
    { Response(200, "inline image"), Response(200, "image in text"),
      Response(200, "image then prose"), Response(200, "no image"),
      Response(400, "bad request"), Response(429, "quota"),
      Response(500, "internal"), Response(502, "bad gateway"),
      Response(503, "unavailable"), Timeout }

\* One answer more than the loop can ask for.
ScriptLen == maxRetries + 1

ApiScripts == [1..ScriptLen -> ApiOutcomes]

\* The scripts of the external service a request is run against.
Script(a, b, c) == [k \in 1..ScriptLen |-> IF k = 1 THEN a ELSE IF k = 2 THEN b ELSE c]

HandlerScripts ==
    { Script(Response(200, "inline image"), Response(200, "inline image"), Response(200, "inline image")),
      Script(Response(200, "image then prose"), Response(200, "inline image"), Response(200, "inline image")),
      Script(Response(503, "unavailable"), Response(503, "unavailable"), Response(200, "inline image")),
      Script(Response(400, "bad request"), Response(200, "no image"), Response(200, "image in text")),
      Script(Timeout, Response(429, "quota"), Response(429, "quota")) }

\* The service keeps giving its last answer to calls beyond the script.
ApiAnswer(k) == api[IF k > Len(api) THEN Len(api) ELSE k]

\* Errors: msg is the fixed part of the message, status and text the parts
\* taken from the response.
Err(msg) == [msg |-> msg, status |-> 0, text |-> ""]
NoError == Err("")
ErrMissingKey == Err("Missing GEMINI_API_KEY")
ErrApi(status, text) == [msg |-> "Gemini API error", status |-> status, text |-> text]
ErrNoImage == Err("Gemini API returned no image data")
ErrAborted == Err("This operation was aborted")

\* What the invocation returned ({dataUrl}, a string) or threw.
NoResult == [ok |-> FALSE, dataUrl |-> <<>>, error |-> NoError]
Returned(dataUrl) == [ok |-> TRUE, dataUrl |-> dataUrl, error |-> NoError]
Threw(e) == [ok |-> FALSE, dataUrl |-> <<>>, error |-> e]

\* The body of a 2xx response holds one part: inline data, or text.  Text is
\* made of prose, white space, closing quotes and brackets, the literal
\* "data:image/png;base64," and runs of base64 characters.
PNGTAG == Lit("data:image/png;base64,", 22)
PROSE == Lit("prose", 5)
SPACE == Lit(" ", 1)
CLOSERS == Lit("')", 2)

\* part.inlineData.data of the body: <<>> when the part is not inline data.
InlineDataOf(body) == IF body = "inline image" THEN <<B64(SmallLen)>> ELSE <<>>

\* part.text of the body: <<>> when the part is not text.
TextOf(body) ==
    CASE body = "image in text" -> <<PROSE, SPACE, PNGTAG, B64(SmallLen), CLOSERS, SPACE>>
      [] body = "image then prose" -> <<PNGTAG, B64(SmallLen), SPACE, PROSE>>
      [] body = "no image" -> <<PROSE>>
      [] OTHER -> <<>>

\* text.indexOf('data:image/png;base64,'): 0 when it is not there.
indexOfPng(text) ==
    LET I == {i \in DOMAIN text : text[i] = PNGTAG}
    IN  IF I = {} THEN 0 ELSE CHOOSE i \in I : \A j \in I : i <= j

\* String.prototype.trim of a string that starts with the literal: the white
\* space at its end is removed.
RECURSIVE trim(_)
trim(text) ==
    IF text # <<>> /\ text[Len(text)] = SPACE
    THEN trim(SubSeq(text, 1, Len(text) - 1))
    ELSE text

\* candidate.replace(...): the run of closing quotes and brackets at the end
\* of the string is removed.
stripClosers(text) ==
    IF text # <<>> /\ text[Len(text)] = CLOSERS
    THEN SubSeq(text, 1, Len(text) - 1)
    ELSE text

\* The dataUrl found in a text part.
cleanFrom(text) == stripClosers(trim(SubSeq(text, indexOfPng(text), Len(text))))

\* response.ok
ResponseOk(r) == r.status >= 200 /\ r.status <= 299

isRetryableError(status) == status = 500 \/ status = 502 \/ status = 503

\* A plausible slip: the exponent counted from the first retry, so that the
\* first delay is baseDelay.
delay_FromBase(n) == baseDelay * 2 ^ (n - 2)

\* const delay = baseDelay * Math.pow(2, attempt - 1)
delay(n) == baseDelay * 2 ^ (n - 1)

\* fetchWithTimeout(...) is called: one more external call is in flight.
IssueCall ==
    /\ apiCalls' = apiCalls + 1
    /\ inFlight' = inFlight + 1
    /\ gPc' = "fetch"

\* The top of the loop body for the next value of attempt: attempts after the
\* first wait for the delay before the call; past maxRetries the loop is left
\* and line 154 throws.
Iterate(n, err) ==
    /\ attempt' = n
    /\ lastError' = err
    /\ IF n <= maxRetries
       THEN /\ gPc' = IF n > 1 THEN "backoff" ELSE "fetch"
            /\ apiCalls' = IF n > 1 THEN apiCalls ELSE apiCalls + 1
            /\ gResult' = gResult
       ELSE /\ gPc' = "thrown"
            /\ gResult' = Threw(IF err = NoError
                                THEN Err("Failed to get response from Gemini API")
                                ELSE err)
            /\ apiCalls' = apiCalls

\* catch (error) { lastError = error; if (attempt === maxRetries) throw error; }
\* and otherwise the loop goes on.
Catch(error) ==
    IF attempt = maxRetries
    THEN /\ lastError' = error
         /\ gPc' = "thrown"
         /\ gResult' = Threw(error)
         /\ UNCHANGED <<attempt, apiCalls>>
    ELSE Iterate(attempt + 1, error)

\* if (!apiKey).  A plausible slip: the test left out.
keyMissing_Never(key) == FALSE

keyMissing(key) == ~key

\* generateOverlayedImage is called: it runs to its first await, the call of
\* attempt 1, or throws at once when the key is missing.  scripts: what the
\* external service may answer to the calls of this invocation.
gEnter(scripts) ==
    /\ gPc = "idle"
    /\ api' \in scripts
    /\ IF keyMissing(apiKey)
       THEN /\ gPc' = "thrown"
            /\ gResult' = Threw(ErrMissingKey)
            /\ UNCHANGED <<attempt, lastError, apiCalls>>
       ELSE Iterate(1, NoError)
    /\ inFlight' = inFlight + (apiCalls' - apiCalls)
    /\ UNCHANGED <<apiKey, delays>>

\* The delay of an attempt after the first has passed: the call is made.
gBackoffDone ==
    /\ gPc = "backoff"
    /\ delays' = Append(delays, delay(attempt))
    /\ IssueCall
    /\ UNCHANGED <<apiKey, api, attempt, lastError, gResult>>

\* The call in flight ends: with a response, or aborted by the timeout.
gResponse ==
    /\ gPc = "fetch"
    /\ LET r == ApiAnswer(apiCalls)
       IN  IF r.kind = "timeout" THEN Catch(ErrAborted)
           ELSE IF ~ResponseOk(r)
                THEN IF isRetryableError(r.status) /\ attempt < maxRetries
                     THEN Iterate(attempt + 1, ErrApi(r.status, r.body))
                     ELSE Catch(ErrApi(r.status, r.body))
           ELSE IF InlineDataOf(r.body) # <<>>
                THEN /\ gPc' = "returned"
                     /\ gResult' = Returned(<<PNGTAG>> \o InlineDataOf(r.body))
                     /\ UNCHANGED <<attempt, lastError, apiCalls>>
           ELSE IF indexOfPng(TextOf(r.body)) # 0
                THEN /\ gPc' = "returned"
                     /\ gResult' = Returned(cleanFrom(TextOf(r.body)))
                     /\ UNCHANGED <<attempt, lastError, apiCalls>>
           ELSE Catch(ErrNoImage)
    /\ inFlight' = inFlight - 1 + (apiCalls' - apiCalls)
    /\ UNCHANGED <<apiKey, api, delays>>

(***************************************************************************)
(* The request.  A field of the request is drawn from its inputs where the *)
(* code first uses it and is kept in req from then on; a field the code    *)
(* has not used is Unread.  The body does not change while the request is  *)
(* handled, so this gives the same behaviours as drawing them on arrival.  *)
(***************************************************************************)
UNDEF == "<undefined>"
UNREAD == "<unread>"
Unread == [type |-> "unread", toks |-> <<>>]

\* A value that is a list (Array.isArray) or is not.
Array(items) == [kind |-> "array", items |-> items]
NotArray == [kind |-> "absent", items |-> <<>>]
UnreadList == [kind |-> "unread", items |-> <<>>]

\* Array.isArray(x) && x.length
IsNonEmptyArray(x) == x.kind = "array" /\ Len(x.items) > 0

\* An inline part {inlineData: {mimeType, data}}, null, or a pending promise.
Image(m, d) == [tag |-> "image", mimeType |-> m, data |-> d]
Null == [tag |-> "null", mimeType |-> <<>>, data |-> <<>>]
Pending == [tag |-> "pending", mimeType |-> <<>>, data |-> <<>>]

\* .filter(Boolean)
FilterBoolean(xs) == SelectSeq(xs, LAMBDA x : x.tag = "image")

Reply(status, code) == [status |-> status, code |-> code, ok |-> FALSE, result |-> <<>>]
ReplyOk(result) == [status |-> 200, code |-> "", ok |-> TRUE, result |-> result]

(***************************************************************************)
(* validateExtension                                                       *)
(***************************************************************************)
\* process.env.CHROME_EXTENSION_IDS?.split(',') || []
EnvSet(fields) == [set |-> TRUE, fields |-> fields]
EnvUnset == [set |-> FALSE, fields |-> <<>>]
allowedIds(env) == IF env.set THEN env.fields ELSE <<>>

\* a || b on identifiers
OrElse(a, b) == IF a # UNDEF /\ a # "" THEN a ELSE b

\* A plausible slip: an empty allow-list taken to mean "no restriction".
includes_OpenWhenEmpty(ids, id) == ids = <<>> \/ \E i \in DOMAIN ids : ids[i] = id

\* A plausible slip: the test left out.
includes_Anyone(ids, id) == TRUE

\* allowedIds.includes(extensionId)
includes(ids, id) == \E i \in DOMAIN ids : ids[i] = id

BodyIdInputs == {UNDEF, "ext1", "evil"}
HeaderIdInputs == {UNDEF, "", "ext1"}

validateExtension ==
    /\ hPc = "idle"
    /\ \E b \in BodyIdInputs, h \in HeaderIdInputs :
         LET id == OrElse(b, h)
         IN  /\ req' = [req EXCEPT !.bodyId = b, !.headerId = h]
             /\ IF ~includes(allowedIds(envIds), id)
                THEN /\ responses' = Append(responses, Reply(403, "INVALID_EXTENSION_ID"))
                     /\ hPc' = "done"
                     /\ UNCHANGED extensionId
                ELSE /\ extensionId' = id
                     /\ hPc' = "handler"
                     /\ UNCHANGED responses
    /\ UNCHANGED <<envIds, actualUserImage, userInlinePart, results, settled,
                   overlayInlineParts, decoded, fetched, invocations>>
    /\ UNCHANGED <<codecVars, synthVars>>

(***************************************************************************)
(* POST /api/extension/tryon                                               *)
(***************************************************************************)
\* The catch block: error.message.includes(...) picks the response.
Fragments(text) ==
    CASE text = "Image too large" -> {"Image too large"}
      [] text = "Unsupported mime type" -> {"Unsupported mime"}
      [] text = "Invalid data URI format" -> {"Invalid data URI"}
      [] text = "Missing GEMINI_API_KEY" -> {"Missing GEMINI_API_KEY"}
      [] text = "quota" -> {"quota"}
      [] OTHER -> {}

MessageIncludes(e, fragment) == fragment \in Fragments(e.msg) \cup Fragments(e.text)

CatchReply(e) ==
    IF MessageIncludes(e, "Image too large")
    THEN Reply(413, "IMAGE_TOO_LARGE")
    ELSE IF MessageIncludes(e, "Unsupported mime") \/ MessageIncludes(e, "Invalid data URI")
    THEN Reply(422, "INVALID_IMAGE_FORMAT")
    ELSE IF MessageIncludes(e, "Missing GEMINI_API_KEY")
    THEN Reply(500, "SERVICE_UNAVAILABLE")
    ELSE IF MessageIncludes(e, "quota") \/ MessageIncludes(e, "rate limit")
    THEN Reply(429, "RATE_LIMITED")
    ELSE Reply(500, "GENERATION_FAILED")

\* The handler answers and ends.
Respond(r) ==
    /\ responses' = Append(responses, r)
    /\ hPc' = "done"

UserImageInputs ==
    { Undefined, Number,
      Str(<<Lit("https://example.com/me.jpg", 26)>>),
      Str(<<DATA, Lit("image/png", 9), COMMA, B64(SmallLen)>>),
      DataUriOf(Lit("image/png", 9), SmallLen),
      DataUriOf(Lit("image/gif", 9), SmallLen),
      DataUriOf(Lit("image/png", 9), MaxOkLen + 1) }

\* The handler starts: the request size check, then studio mode.
\* tooLarge: JSON.stringify(req.body).length > MAX_REQUEST_SIZE.
\* studio: useStudioMode && studioId.
\* req.size and req.userImage are recorded on both branches.
tryonBegin ==
    /\ hPc = "handler"
    /\ \E tooLarge \in BOOLEAN, studio \in BOOLEAN, userImage \in UserImageInputs :
         IF tooLarge
         THEN /\ Respond(Reply(413, "REQUEST_TOO_LARGE"))
              /\ req' = [req EXCEPT !.size = "over", !.userImage = userImage]
              /\ UNCHANGED actualUserImage
         ELSE /\ req' = [req EXCEPT !.size = "within", !.userImage = userImage]
              /\ actualUserImage' = userImage
              /\ hPc' = IF studio THEN "studio" ELSE "validate"
              /\ UNCHANGED responses
    /\ UNCHANGED <<envIds, extensionId, userInlinePart, results, settled,
                   overlayInlineParts, decoded, fetched, invocations>>
    /\ UNCHANGED <<codecVars, synthVars>>

\* `data:image/jpeg;base64,${studioBuffer.toString('base64')}`
StudioDataUri(len) == Str(<<DATA, Lit("image/jpeg", 10), SEMI, B64TAG, B64(len)>>)

\* fs.readFile(studioPath) ends: with the stored image, whose base64 text is
\* len characters long, or with an error, which is logged and swallowed.
studioRead ==
    /\ hPc = "studio"
    /\ \/ \E len \in {SmallLen, MaxOkLen + 1} : actualUserImage' = StudioDataUri(len)
       \/ UNCHANGED actualUserImage
    /\ hPc' = "validate"
    /\ UNCHANGED <<envIds, req, extensionId, userInlinePart, results, settled,
                   overlayInlineParts, decoded, fetched, invocations, responses>>
    /\ UNCHANGED <<codecVars, synthVars>>

\* The overlay lists of a request hold up to MaxOverlays entries.
MaxOverlays == 4

SeqsUpTo(S, n) == UNION {[1..k -> S] : k \in 0..n}

OverlayUriInputs ==
    { DataUriOf(Lit("image/png", 9), SmallLen),
      Str(<<Lit("https://example.com/shirt.png", 29)>>) }

OverlayDataInputs == {NotArray} \cup {Array(xs) : xs \in SeqsUpTo(OverlayUriInputs, MaxOverlays)}

\* The URLs of a request are told apart by a number: the list is 1, 2, ..., n.
OverlayUrlInputs == {NotArray} \cup {Array([i \in 1..n |-> i]) : n \in 0..MaxOverlays}

\* .slice(0, 3): limit to 3 images.  A plausible slip: the limit left out.
slice3_All(xs) == xs

slice3(xs) == SubSeq(xs, 1, IF Len(xs) < 3 THEN Len(xs) ELSE 3)

\* The callback of overlayData.map: the parsed entry, or null when
\* parseDataUri throws.
InlineOrNull(uri) ==
    LET p == parseDataUri(uri)
    IN  IF p.ok THEN Image(p.mimeType, p.base64) ELSE Null

\* !actualUserImage?.startsWith('data:') is false.  A plausible slip: any
\* non-empty value taken for a data URI.
userImageIsDataUri_Truthy(v) == Truthy(v)

userImageIsDataUri(v) == v.type = "string" /\ startsWithData(v.toks)

\* The else of "if (Array.isArray(overlayData) && overlayData.length)": only
\* then is overlayUrls looked at.  A plausible slip: "if" for "else if".
ReadsUrls_Always(overlayData) == TRUE

ReadsUrls(overlayData) == ~IsNonEmptyArray(overlayData)

\* The user image is validated and parsed, the inline overlays are parsed or
\* the fetches of the overlay URLs are started.
tryonResolve ==
    /\ hPc = "validate"
    /\ IF actualUserImage.type \notin {"undefined", "string"}
       THEN \* TypeError: actualUserImage?.startsWith is not a function
            /\ Respond(CatchReply(Err("startsWith is not a function")))
            /\ UNCHANGED <<req, userInlinePart, results, overlayInlineParts, decoded, fetched>>
       ELSE IF ~userImageIsDataUri(actualUserImage)
       THEN /\ Respond(Reply(400, "INVALID_USER_IMAGE"))
            /\ UNCHANGED <<req, userInlinePart, results, overlayInlineParts, decoded, fetched>>
       ELSE LET userParsed == parseDataUri(actualUserImage)
            IN  IF ~userParsed.ok
                THEN /\ Respond(CatchReply(Err(userParsed.error)))
                     /\ decoded' = Append(decoded, actualUserImage)
                     /\ UNCHANGED <<req, userInlinePart, results, overlayInlineParts, fetched>>
                ELSE /\ userInlinePart' = Image(userParsed.mimeType, userParsed.base64)
                     /\ UNCHANGED responses
                     /\ \E overlayData \in OverlayDataInputs :
                          LET taken == IF IsNonEmptyArray(overlayData)
                                       THEN slice3(overlayData.items) ELSE <<>>
                              inline == FilterBoolean([i \in DOMAIN taken |-> InlineOrNull(taken[i])])
                          IN  /\ decoded' = Append(decoded, actualUserImage) \o taken
                              /\ overlayInlineParts' = inline
                              /\ IF ReadsUrls(overlayData)
                                 THEN \E overlayUrls \in OverlayUrlInputs :
                                        /\ req' = [req EXCEPT !.overlayData = overlayData,
                                                              !.overlayUrls = overlayUrls]
                                        /\ IF IsNonEmptyArray(overlayUrls)
                                           THEN LET urls == slice3(overlayUrls.items)
                                                IN  /\ fetched' = fetched \o urls
                                                    /\ results' = [i \in DOMAIN urls |-> Pending]
                                                    /\ hPc' = "fetching"
                                           ELSE /\ hPc' = "resolved"
                                                /\ UNCHANGED <<fetched, results>>
                                 ELSE /\ req' = [req EXCEPT !.overlayData = overlayData]
                                      /\ hPc' = "resolved"
                                      /\ UNCHANGED <<fetched, results>>
    /\ UNCHANGED <<envIds, extensionId, actualUserImage, settled, invocations>>
    /\ UNCHANGED <<codecVars, synthVars>>

\* The end of one overlay fetch: a response with its status and content-type
\* header (<<>> when there is none), or a network error.
FetchResponse(ok, contentType) == [kind |-> "response", ok |-> ok, contentType |-> contentType]
FetchError == [kind |-> "error", ok |-> FALSE, contentType |-> <<>>]

FetchOutcomes ==
    { FetchResponse(TRUE, <<Lit("image/png", 9), SEMI, Lit(" charset=binary", 15)>>),
      FetchResponse(TRUE, <<>>),
      FetchResponse(TRUE, <<Lit("text/html", 9), SEMI, Lit(" charset=utf-8", 14)>>),
      FetchResponse(FALSE, <<Lit("text/html", 9)>>),
      FetchError }

\* (contentType || 'image/jpeg').split(';')[0]
MimeOfContentType(contentType) ==
    LET ct == IF contentType = <<>> THEN <<Lit("image/jpeg", 10)>> ELSE contentType
        k == FirstSemi(ct)
    IN  IF k = 0 THEN ct ELSE SubSeq(ct, 1, k - 1)

\* buffer.toString('base64') of the body served at url: the token names the url.
BodyBase64(url) == <<[s |-> "base64 of the body at", n |-> url]>>

\* What the promise of one fetch resolves to.
FetchResult(url, o) ==
    IF o.kind = "error" \/ ~o.ok THEN Null
    ELSE IF MimeOfContentType(o.contentType) \notin ALLOWED_MIME THEN Null
    ELSE Image(MimeOfContentType(o.contentType), BodyBase64(url))

fetchSettles ==
    /\ hPc = "fetching"
    /\ \E i \in DOMAIN results, o \in FetchOutcomes :
         /\ results[i] = Pending
         /\ results' = [results EXCEPT ![i] = FetchResult(fetched[i], o)]
         /\ settled' = Append(settled, i)
    /\ UNCHANGED <<envIds, hPc, req, extensionId, actualUserImage, userInlinePart,
                   overlayInlineParts, decoded, fetched, invocations, responses>>
    /\ UNCHANGED <<codecVars, synthVars>>

\* Promise.all resolves to the values by index.  A plausible slip: the values
\* pushed to a list as each fetch ends.
promiseAllValues_AsSettled(rs, order) == [k \in DOMAIN order |-> rs[order[k]]]

promiseAllValues(rs, order) == rs

\* await Promise.all(fetchPromises) resumes once every fetch has settled.
promiseAll ==
    /\ hPc = "fetching"
    /\ \A i \in DOMAIN results : results[i] # Pending
    /\ overlayInlineParts' = FilterBoolean(promiseAllValues(results, settled))
    /\ hPc' = "resolved"
    /\ UNCHANGED <<envIds, req, extensionId, actualUserImage, userInlinePart,
                   results, settled, decoded, fetched, invocations, responses>>
    /\ UNCHANGED <<codecVars, synthVars>>

\* !overlayInlineParts.length.  A plausible slip: !overlayInlineParts, which
\* is false of every array.
noOverlays_Falsy(parts) == FALSE

noOverlays(parts) == Len(parts) = 0

\* No overlay image: 422.  Else generateOverlayedImage is called.
tryonSynthesize ==
    /\ hPc = "resolved"
    /\ IF noOverlays(overlayInlineParts)
       THEN /\ Respond(Reply(422, "NO_OVERLAY_IMAGES"))
            /\ UNCHANGED <<invocations, synthVars>>
       ELSE /\ invocations' = Append(invocations, overlayInlineParts)
            /\ gEnter(HandlerScripts)
            /\ hPc' = "synth"
            /\ UNCHANGED responses
    /\ settled' = <<>>
    /\ UNCHANGED <<envIds, req, extensionId, actualUserImage, userInlinePart,
                   results, overlayInlineParts, decoded, fetched>>
    /\ UNCHANGED codecVars

\* The await of generateOverlayedImage, inside the try, resumes the handler
\* when the promise is fulfilled or rejected.  A plausible slip: no catch, the
\* handler resumed by a fulfilled promise only.
awaitResumes_FulfilledOnly(pc) == pc = "returned"

awaitResumes(pc) == pc \in {"returned", "thrown"}

\* generateOverlayedImage has returned or thrown: res.json(...) or the catch block.
tryonRespond ==
    /\ hPc = "synth"
    /\ awaitResumes(gPc)
    /\ IF gResult.ok
       THEN Respond(ReplyOk(gResult.dataUrl))
       ELSE Respond(CatchReply(gResult.error))
    /\ UNCHANGED <<envIds, req, extensionId, actualUserImage, userInlinePart,
                   results, settled, overlayInlineParts, decoded, fetched, invocations>>
    /\ UNCHANGED <<codecVars, synthVars>>

(***************************************************************************)
(* SpecCodec: parseDataUri applied to one input.                           *)
(***************************************************************************)
\* The values of the variables a specification does not use.
CodecIdle == dataUri = Undefined /\ parsed = <<>>

SynthIdle ==
    /\ gPc = "idle"
    /\ attempt = 0
    /\ lastError = NoError
    /\ apiCalls = 0
    /\ inFlight = 0
    /\ delays = <<>>
    /\ gResult = NoResult

HandlerIdle ==
    /\ hPc = "idle"
    /\ req = [bodyId |-> UNREAD, headerId |-> UNREAD, size |-> UNREAD, userImage |-> Unread,
              overlayData |-> UnreadList, overlayUrls |-> UnreadList]
    /\ extensionId = UNDEF
    /\ actualUserImage = Unread
    /\ userInlinePart = Null
    /\ results = <<>>
    /\ settled = <<>>
    /\ overlayInlineParts = <<>>
    /\ decoded = <<>>
    /\ fetched = <<>>
    /\ invocations = <<>>
    /\ responses = <<>>

vars == <<codecVars, synthVars, handlerVars>>

InitCodec ==
    /\ dataUri \in DataUriInputs
    /\ parsed = <<>>
    /\ apiKey = TRUE
    /\ api = <<>>
    /\ SynthIdle
    /\ envIds = EnvUnset
    /\ HandlerIdle

Decode ==
    /\ parsed = <<>>
    /\ parsed' = <<parseDataUri(dataUri)>>
    /\ UNCHANGED <<dataUri, synthVars, handlerVars>>

NextCodec == Decode

SpecCodec == InitCodec /\ [][NextCodec]_vars

(***************************************************************************)
(* SpecSynth: one invocation of generateOverlayedImage, for every script   *)
(* of answers of the external service.                                     *)
(***************************************************************************)
InitSynth ==
    /\ CodecIdle
    /\ apiKey \in BOOLEAN
    /\ api = <<>>
    /\ SynthIdle
    /\ envIds = EnvUnset
    /\ HandlerIdle

Invoke == gEnter(ApiScripts) /\ UNCHANGED <<codecVars, handlerVars>>

BackoffDone == gBackoffDone /\ UNCHANGED <<codecVars, handlerVars>>

ResponseArrives == gResponse /\ UNCHANGED <<codecVars, handlerVars>>

NextSynth == Invoke \/ BackoffDone \/ ResponseArrives

SpecSynth == InitSynth /\ [][NextSynth]_vars

(***************************************************************************)
(* Spec: one try-on request, from its arrival to its response.             *)
(***************************************************************************)
EnvInputs == {EnvUnset, EnvSet(<<"">>), EnvSet(<<"ext2", "ext1">>)}

Init ==
    /\ CodecIdle
    /\ apiKey \in BOOLEAN
    /\ api = <<>>
    /\ SynthIdle
    /\ envIds \in EnvInputs
    /\ HandlerIdle

synthBackoffDone == hPc = "synth" /\ gBackoffDone /\ UNCHANGED <<codecVars, handlerVars>>

synthResponse == hPc = "synth" /\ gResponse /\ UNCHANGED <<codecVars, handlerVars>>

Next ==
    \/ validateExtension
    \/ tryonBegin
    \/ studioRead
    \/ tryonResolve
    \/ fetchSettles
    \/ promiseAll
    \/ tryonSynthesize
    \/ synthBackoffDone
    \/ synthResponse
    \/ tryonRespond

Spec == Init /\ [][Next]_vars

\* Every step of a request is the continuation of an await, a timer or a
\* network event; the event loop runs each once its event has come, and the
\* events are assumed to come: every external call ends, with a response, an
\* error or a timeout, and the read of the studio file ends.
FairSpec == Spec /\ WF_vars(Next)

(***************************************************************************)
(* SpecSimple: one try-on request to the second server of the repository   *)
(* (the listing from line 407 on).  Its validateExtension, its overlay     *)
(* fetches, its 422 check and its call of generateOverlayedImage are the   *)
(* same code as the first server's; its handler has no request size check  *)
(* and no studio mode, maps overlayData without a try/catch, and has a     *)
(* shorter catch block.                                                    *)
(***************************************************************************)
simpleCatchReply(e) ==
    IF MessageIncludes(e, "Image too large")
    THEN Reply(413, "IMAGE_TOO_LARGE")
    ELSE IF MessageIncludes(e, "Unsupported mime") \/ MessageIncludes(e, "Invalid data URI")
    THEN Reply(400, "INVALID_IMAGE_FORMAT")
    ELSE Reply(500, "GENERATION_FAILED")

\* The index of the first entry that parseDataUri rejects, 0 when there is none.
firstRejected(uris) ==
    LET I == {i \in DOMAIN uris : ~parseDataUri(uris[i]).ok}
    IN  IF I = {} THEN 0 ELSE CHOOSE i \in I : \A j \in I : i <= j

\* The user image is validated and parsed; overlayData is mapped, and the
\* first entry that parseDataUri rejects throws out of the map into the catch
\* block of the handler; or the fetches of the overlay URLs are started.
simpleResolve ==
    /\ hPc = "handler"
    /\ \E userImage \in UserImageInputs :
         /\ actualUserImage' = userImage
         /\ IF userImage.type \notin {"undefined", "string"}
            THEN /\ Respond(simpleCatchReply(Err("startsWith is not a function")))
                 /\ req' = [req EXCEPT !.userImage = userImage]
                 /\ UNCHANGED <<userInlinePart, results, overlayInlineParts, decoded, fetched>>
            ELSE IF ~userImageIsDataUri(userImage)
            THEN /\ Respond(Reply(400, "INVALID_USER_IMAGE"))
                 /\ req' = [req EXCEPT !.userImage = userImage]
                 /\ UNCHANGED <<userInlinePart, results, overlayInlineParts, decoded, fetched>>
            ELSE LET userParsed == parseDataUri(userImage)
                 IN  IF ~userParsed.ok
                     THEN /\ Respond(simpleCatchReply(Err(userParsed.error)))
                          /\ req' = [req EXCEPT !.userImage = userImage]
                          /\ decoded' = Append(decoded, userImage)
                          /\ UNCHANGED <<userInlinePart, results, overlayInlineParts, fetched>>
                     ELSE /\ userInlinePart' = Image(userParsed.mimeType, userParsed.base64)
                          /\ \E overlayData \in OverlayDataInputs :
                               IF IsNonEmptyArray(overlayData)
                               THEN LET taken == slice3(overlayData.items)
                                        bad == firstRejected(taken)
                                    IN  /\ req' = [req EXCEPT !.userImage = userImage,
                                                              !.overlayData = overlayData]
                                        /\ UNCHANGED <<fetched, results>>
                                        /\ IF bad # 0
                                           THEN /\ decoded' = Append(decoded, userImage)
                                                                 \o SubSeq(taken, 1, bad)
                                                /\ Respond(simpleCatchReply(
                                                       Err(parseDataUri(taken[bad]).error)))
                                                /\ UNCHANGED overlayInlineParts
                                           ELSE /\ decoded' = Append(decoded, userImage) \o taken
                                                /\ overlayInlineParts' =
                                                       [i \in DOMAIN taken |->
                                                          Image(parseDataUri(taken[i]).mimeType,
                                                                parseDataUri(taken[i]).base64)]
                                                /\ hPc' = "resolved"
                                                /\ UNCHANGED responses
                               ELSE \E overlayUrls \in OverlayUrlInputs :
                                      /\ req' = [req EXCEPT !.userImage = userImage,
                                                            !.overlayData = overlayData,
                                                            !.overlayUrls = overlayUrls]
                                      /\ decoded' = Append(decoded, userImage)
                                      /\ UNCHANGED <<overlayInlineParts, responses>>
                                      /\ IF IsNonEmptyArray(overlayUrls)
                                         THEN LET urls == slice3(overlayUrls.items)
                                              IN  /\ fetched' = fetched \o urls
                                                  /\ results' = [i \in DOMAIN urls |-> Pending]
                                                  /\ hPc' = "fetching"
                                         ELSE /\ hPc' = "resolved"
                                              /\ UNCHANGED <<fetched, results>>
    /\ UNCHANGED <<envIds, extensionId, settled, invocations>>
    /\ UNCHANGED <<codecVars, synthVars>>

\* generateOverlayedImage has returned or thrown: res.json(...) or the catch block.
simpleRespond ==
    /\ hPc = "synth"
    /\ gPc \in {"returned", "thrown"}
    /\ IF gResult.ok
       THEN Respond(ReplyOk(gResult.dataUrl))
       ELSE Respond(simpleCatchReply(gResult.error))
    /\ UNCHANGED <<envIds, req, extensionId, actualUserImage, userInlinePart,
                   results, settled, overlayInlineParts, decoded, fetched, invocations>>
    /\ UNCHANGED <<codecVars, synthVars>>

NextSimple ==
    \/ validateExtension
    \/ simpleResolve
    \/ fetchSettles
    \/ promiseAll
    \/ tryonSynthesize
    \/ synthBackoffDone
    \/ synthResponse
    \/ simpleRespond

SpecSimple == Init /\ [][NextSimple]_vars

(***************************************************************************)
(* The claims.                                                             *)
(***************************************************************************)
\* What the claims call a transient failure: status 500, 502 or 503, or a timeout.
IsTransient(o) == o.kind = "timeout" \/ (o.kind = "response" /\ o.status \in {500, 502, 503})

\* A 2xx answer that holds an image.
HasImage(o) ==
    /\ o.kind = "response" /\ o.status = 200
    /\ o.body \in {"inline image", "image in text", "image then prose"}

\* The error the client reports for a failed answer.
ErrorOfAnswer(o) ==
    IF o.kind = "timeout" THEN ErrAborted
    ELSE IF o.status = 200 THEN ErrNoImage
    ELSE ErrApi(o.status, o.body)

\* The call in flight, if any, is the last one issued; the others were answered.
Answered == IF gPc = "fetch" THEN apiCalls - 1 ELSE apiCalls

\* C1 (SpecSynth): a retry happens only after status 500, 502 or 503 or a
\* timeout: every answered call that was followed by another call failed
\* transiently, and once a call is answered with another failure (another
\* non-2xx status, or a 2xx without an image) the invocation has ended with
\* that failure and no further call.
C1_RetryOnlyAfterTransient ==
    /\ \A k \in 1..(apiCalls - 1) : IsTransient(ApiAnswer(k))
    /\ \A k \in 1..Answered :
         (~IsTransient(ApiAnswer(k)) /\ ~HasImage(ApiAnswer(k)))
            => /\ gPc = "thrown"
               /\ apiCalls = k
               /\ gResult = Threw(ErrorOfAnswer(ApiAnswer(k)))

\* C2 (SpecSynth): one invocation issues at most 3 external calls and its
\* attempt counter stays in 1..3 once the loop runs; a transient failure on
\* attempt k < 3 is followed by the delay and the call of attempt k + 1; a
\* failure on attempt 3 ends the invocation with the error of that attempt.
C2_Counters ==
    /\ apiCalls \in 0..3
    /\ apiCalls >= 1 => attempt \in 1..3
    /\ gPc = "fetch" => attempt = apiCalls
    /\ gPc = "backoff" => attempt = apiCalls + 1 /\ attempt <= 3
    /\ (gPc = "thrown" /\ apiCalls = 3) => gResult = Threw(ErrorOfAnswer(ApiAnswer(3)))

C2_TransientIsRetried ==
    (gPc = "fetch" /\ attempt < 3 /\ IsTransient(ApiAnswer(apiCalls)))
        => (gPc' = "backoff" /\ attempt' = attempt + 1 /\ apiCalls' = apiCalls)

C2_DelayThenCall ==
    gPc = "backoff" => (gPc' = "fetch" /\ attempt' = attempt /\ apiCalls' = apiCalls + 1)

C2_ThirdFailureEnds ==
    (gPc = "fetch" /\ attempt = 3 /\ ~HasImage(ApiAnswer(apiCalls)))
        => (gPc' = "thrown" /\ apiCalls' = 3)

C2_RetryBudget ==
    /\ []C2_Counters
    /\ [][C2_TransientIsRetried /\ C2_DelayThenCall /\ C2_ThirdFailureEnds]_vars

\* Three transient failures in a row: the third ends the invocation.
C2_Witness ==
    /\ gPc = "thrown"
    /\ apiCalls = 3
    /\ \A k \in 1..3 : IsTransient(ApiAnswer(k))
    /\ ApiAnswer(1) # ApiAnswer(2)

RECURSIVE SumSeq(_)
SumSeq(xs) == IF xs = <<>> THEN 0 ELSE Head(xs) + SumSeq(Tail(xs))

\* The scenario of C9: 503, 503, then 200 with an image.
C9_Scenario ==
    /\ apiKey
    /\ Len(api) >= 3
    /\ api[1] = Response(503, "unavailable")
    /\ api[2] = Response(503, "unavailable")
    /\ HasImage(api[3])
    /\ gPc \in {"returned", "thrown"}

\* C9 as stated (SpecSynth): with 503, 503, then 200 with an image, the call
\* succeeds on the third attempt after a total delay of 1000 ms + 2000 ms.
C9_DelayAsStated ==
    C9_Scenario => (gPc = "returned" /\ attempt = 3 /\ SumSeq(delays) = 1000 + 2000)

\* C9 amended (SpecSynth): with 503, 503, then 200 with an image, the call
\* succeeds on the third attempt, after a delay of 2000 ms before attempt 2
\* and of 4000 ms before attempt 3: 6000 ms in all.
C9_DelayAmended ==
    C9_Scenario =>
        /\ gPc = "returned" /\ gResult.ok
        /\ attempt = 3 /\ apiCalls = 3
        /\ delays = <<2000, 4000>>
        /\ SumSeq(delays) = 6000

C9_Witness == C9_Scenario /\ gPc = "returned" /\ Len(delays) = 2

\* The inputs of the shape data:<mime>;base64,<payload>, with their parts.
EightMiB == 8 * 1024 * 1024

IsShaped(v) ==
    /\ v.type = "string"
    /\ Len(v.toks) \in {4, 5}
    /\ v.toks[1] = DATA /\ v.toks[2] \in MimeInputs
    /\ v.toks[3] = SEMI /\ v.toks[4] = B64TAG
    /\ Len(v.toks) = 5 => v.toks[5].s = "b64"

MimeOf(v) == v.toks[2]
PayloadLen(v) == IF Len(v.toks) = 5 THEN v.toks[5].n ELSE 0
Estimate(v) == (PayloadLen(v) * 3) \div 4

AllowListed(m) ==
    LowerText(m.s) \in {"image/jpeg", "image/jpg", "image/png", "image/webp", "image/avif"}

\* C10 as stated (SpecCodec): a data URI whose estimated size exceeds 8 MiB
\* fails with 'Image too large', whatever its mime type.
C10_TooLargeAnyMime ==
    (parsed # <<>> /\ IsShaped(dataUri) /\ Estimate(dataUri) > EightMiB)
        => (~parsed[1].ok /\ parsed[1].error = "Image too large")

\* C10 amended (SpecCodec): a data URI whose estimated size exceeds 8 MiB
\* fails: with 'Image too large' when its mime type is in the allow-list
\* (case-insensitively), and with 'Unsupported mime type' when it is not.
C10_TooLargeAllowedMime ==
    (parsed # <<>> /\ IsShaped(dataUri) /\ Estimate(dataUri) > EightMiB)
        => /\ ~parsed[1].ok
           /\ AllowListed(MimeOf(dataUri)) => parsed[1].error = "Image too large"
           /\ ~AllowListed(MimeOf(dataUri)) => parsed[1].error = "Unsupported mime type"

\* The smallest payload over the limit, with an allow-listed mime type in upper case.
C10_Witness ==
    /\ parsed # <<>> /\ IsShaped(dataUri)
    /\ Estimate(dataUri) = EightMiB + 1
    /\ MimeOf(dataUri).s = "IMAGE/PNG"
    /\ parsed[1].error = "Image too large"

\* The caller identity of the request: body extensionId, else the header.
Identity == OrElse(req.bodyId, req.headerId)

\* The configured allow-list, as a set.
AllowList == IF envIds.set THEN {envIds.fields[i] : i \in DOMAIN envIds.fields} ELSE {}

Arrived == req.bodyId # UNREAD

\* C3 (Spec): a request whose caller identity is not in the configured
\* allow-list is answered 403 INVALID_EXTENSION_ID and nothing else happens:
\* no image is decoded, no overlay URL is fetched, the synthesis client is not
\* invoked.
C3_UnauthorizedStops ==
    (Arrived /\ Identity \notin AllowList)
        => /\ responses = <<Reply(403, "INVALID_EXTENSION_ID")>>
           /\ hPc = "done"
           /\ req.userImage = Unread /\ req.overlayData = UnreadList
           /\ decoded = <<>> /\ fetched = <<>> /\ results = <<>>
           /\ invocations = <<>> /\ gPc = "idle" /\ apiCalls = 0

\* An identity is given and a list is configured, and the one is not in the other.
C3_Witness ==
    /\ Arrived /\ req.bodyId = "evil" /\ req.headerId = "ext1"
    /\ AllowList = {"ext1", "ext2"}
    /\ responses = <<Reply(403, "INVALID_EXTENSION_ID")>>

\* The ways overlay resolution yields no image.
FirstThree(xs) == 1..(IF Len(xs) < 3 THEN Len(xs) ELSE 3)

NoneSupplied ==
    /\ req.overlayData \in {NotArray, Array(<<>>)}
    /\ req.overlayUrls \in {NotArray, Array(<<>>)}

AllInlineDropped ==
    /\ IsNonEmptyArray(req.overlayData)
    /\ \A i \in FirstThree(req.overlayData.items) : ~parseDataUri(req.overlayData.items[i]).ok

AllFetchesDropped ==
    /\ ~IsNonEmptyArray(req.overlayData)
    /\ IsNonEmptyArray(req.overlayUrls)
    /\ \A i \in DOMAIN results : results[i] = Null

YieldsNoImage == NoneSupplied \/ AllInlineDropped \/ AllFetchesDropped

\* C4 (Spec): when the user image has decoded and overlay resolution yields
\* no image (nothing supplied, or every entry dropped), the request is
\* answered 422 NO_OVERLAY_IMAGES and the synthesis client is not invoked; the
\* synthesis client is never called with an empty overlay list.
C4_NoOverlaysRejected ==
    /\ (hPc \in {"synth", "done"} /\ userInlinePart.tag = "image" /\ YieldsNoImage)
          => /\ overlayInlineParts = <<>>
             /\ responses = <<Reply(422, "NO_OVERLAY_IMAGES")>>
             /\ invocations = <<>> /\ gPc = "idle" /\ apiCalls = 0
    /\ \A i \in DOMAIN invocations : invocations[i] # <<>>

\* Every fetch of a request with URLs only was dropped.
C4_Witness ==
    /\ hPc = "done" /\ userInlinePart.tag = "image"
    /\ AllFetchesDropped /\ Len(results) = 3
    /\ responses = <<Reply(422, "NO_OVERLAY_IMAGES")>>

\* C5 (Spec): when overlayData is a non-empty list, overlayUrls is never
\* looked at and no URL is fetched; every overlay image comes from an
\* overlayData entry; when every entry fails to decode there is no overlay
\* image at all.
C5_InlinePreferred ==
    IsNonEmptyArray(req.overlayData)
        => /\ req.overlayUrls = UnreadList
           /\ fetched = <<>> /\ results = <<>> /\ settled = <<>>
           /\ \A k \in DOMAIN overlayInlineParts :
                \E i \in DOMAIN req.overlayData.items :
                    LET p == parseDataUri(req.overlayData.items[i])
                    IN  p.ok /\ overlayInlineParts[k] = Image(p.mimeType, p.base64)
           /\ AllInlineDropped => overlayInlineParts = <<>>
           /\ (AllInlineDropped /\ hPc = "done")
                 => responses = <<Reply(422, "NO_OVERLAY_IMAGES")>>

\* Every overlayData entry failed to decode and the request has ended.
C5_Witness ==
    /\ hPc = "done"
    /\ AllInlineDropped /\ Len(req.overlayData.items) = 2
    /\ responses = <<Reply(422, "NO_OVERLAY_IMAGES")>>

\* C6 (Spec): the overlay list never has more than 3 images, in the handler
\* and in every call of the synthesis client; only the first 3 entries of
\* overlayData are decoded and only the first 3 of overlayUrls are fetched.
C6_AtMostThree ==
    /\ Len(overlayInlineParts) <= 3
    /\ \A i \in DOMAIN invocations : Len(invocations[i]) <= 3
    /\ Len(decoded) <= 1 + 3
    /\ \A k \in 2..Len(decoded) : decoded[k] = req.overlayData.items[k - 1]
    /\ Len(fetched) <= 3 /\ Len(results) <= 3
    /\ \A k \in DOMAIN fetched : fetched[k] = req.overlayUrls.items[k]

\* Four decodable entries were supplied and three were handed over.
C6_Witness ==
    /\ IsNonEmptyArray(req.overlayData) /\ Len(req.overlayData.items) > 3
    /\ \A i \in DOMAIN req.overlayData.items : parseDataUri(req.overlayData.items[i]).ok
    /\ Len(invocations) = 1 /\ Len(invocations[1]) = 3

\* parts is made of the bodies of some of the urls, in the order of the urls.
InUrlOrder(parts, urls) ==
    \E f \in [DOMAIN parts -> DOMAIN urls] :
        /\ \A a, b \in DOMAIN parts : a < b => f[a] < f[b]
        /\ \A k \in DOMAIN parts : parts[k].data = BodyBase64(urls[f[k]])

UrlsResolved == results # <<>> /\ hPc \in {"resolved", "synth", "done"}

\* C7 (Spec): on the URL path the resolved overlay images are in the order of
\* their URLs in the request, whatever the order in which the fetches ended.
C7_UrlOrderKept ==
    UrlsResolved
        => /\ InUrlOrder(overlayInlineParts, req.overlayUrls.items)
           /\ \A i \in DOMAIN invocations :
                InUrlOrder(invocations[i], req.overlayUrls.items)

\* The fetches ended in the order 3, 1, 2, and 1 and 3 gave an image.
C7_Witness ==
    /\ hPc = "resolved"
    /\ settled = <<3, 1, 2>>
    /\ results[1].tag = "image" /\ results[2] = Null /\ results[3].tag = "image"
    /\ Len(overlayInlineParts) = 2

\* The value is no string that starts with data: (it may be missing).
LacksDataPrefix(v) == ~(v.type = "string" /\ Len(v.toks) >= 1 /\ v.toks[1].s = "data:")

IsShapedWithPayload(v) ==
    /\ v.type = "string"
    /\ Len(v.toks) >= 4
    /\ v.toks[1] = DATA /\ v.toks[2] \in MimeInputs
    /\ v.toks[3] = SEMI /\ v.toks[4] = B64TAG
    /\ \A k \in 5..Len(v.toks) : v.toks[k].s = "b64" \/ v.toks[k] = LF

PayloadOf(v) == SubSeq(v.toks, 5, Len(v.toks))

OnOneLine(toks) == \A k \in DOMAIN toks : toks[k] # LF

WithinEightMiB(v) == (StrLen(PayloadOf(v)) * 3) \div 4 <= EightMiB

\* C11 as stated (SpecCodec): a data URI data:<mime>;base64,<payload> whose
\* mime type is in the allow-list, whatever its case, and whose estimated size
\* is at most 8 MiB decodes, to the mime type as it is in the input and to the
\* payload unmodified.
C11_RoundTripAsStated ==
    (/\ parsed # <<>> /\ IsShapedWithPayload(dataUri)
     /\ AllowListed(MimeOf(dataUri)) /\ WithinEightMiB(dataUri))
        => /\ parsed[1].ok
           /\ parsed[1].mimeType = <<MimeOf(dataUri)>>
           /\ parsed[1].base64 = PayloadOf(dataUri)

\* C11 amended (SpecCodec): such a data URI, when its payload holds no line
\* terminator, decodes to its mime type in lower case and to the payload
\* unmodified; when the payload holds a line terminator the decode fails with
\* 'Invalid data URI format'.
C11_RoundTripLowerCased ==
    (/\ parsed # <<>> /\ IsShapedWithPayload(dataUri)
     /\ AllowListed(MimeOf(dataUri)) /\ WithinEightMiB(dataUri))
        => IF OnOneLine(PayloadOf(dataUri))
           THEN /\ parsed[1].ok
                /\ parsed[1].mimeType =
                       <<Lit(LowerText(MimeOf(dataUri).s), MimeOf(dataUri).n)>>
                /\ parsed[1].base64 = PayloadOf(dataUri)
           ELSE parsed[1] = Thrown("Invalid data URI format")

\* A mime type in mixed case with the longest payload within the limit.
C11_Witness ==
    /\ parsed # <<>> /\ IsShapedWithPayload(dataUri)
    /\ MimeOf(dataUri).s = "Image/Jpeg"
    /\ (StrLen(PayloadOf(dataUri)) * 3) \div 4 = EightMiB
    /\ parsed[1].ok /\ parsed[1].mimeType = <<Lit("image/jpeg", 10)>>

\* A complete image data URI: the literal data:image/png;base64, and base64
\* text, and nothing else.
IsImageDataUri(toks) == Len(toks) = 2 /\ toks[1] = PNGTAG /\ toks[2].s = "b64"

IsSuccess(r) == r.status = 200 /\ r.ok /\ r.code = ""

IsStructuredError(r) == r.status >= 300 /\ ~r.ok /\ r.code # "" /\ r.result = <<>>

\* The part of C12 on the number and the kind of the responses: at most one
\* response is sent, one has been sent when the handler has ended, and it is a
\* 200 with a result that starts as an image data URI or an error with a code.
OneResponseOfEitherKind ==
    /\ Len(responses) <= 1
    /\ hPc = "done" <=> Len(responses) = 1
    /\ \A i \in DOMAIN responses :
         \/ IsSuccess(responses[i]) /\ responses[i].result # <<>>
                                    /\ responses[i].result[1] = PNGTAG
         \/ IsStructuredError(responses[i])

\* C12 (Spec): a request gets exactly one response by the time the handler
\* ends and none before; the response is either a 200 with ok: true whose
\* result is a complete synthesized image data URI, or a non-2xx error with a
\* machine-readable code and no result; never both, never a second one.
C12_OneCompleteResponse ==
    /\ Len(responses) <= 1
    /\ hPc = "done" <=> Len(responses) = 1
    /\ \A i \in DOMAIN responses :
         \/ IsSuccess(responses[i]) /\ IsImageDataUri(responses[i].result)
         \/ IsStructuredError(responses[i])

Ended == gPc \in {"returned", "thrown"}

\* C13 as stated (SpecSynth): every invocation of the synthesis client, with
\* or without the API credential, makes at least one and at most three
\* external calls, one per attempt.
C13_OneToThreeCalls ==
    /\ apiCalls <= 3
    /\ Ended => (apiCalls \in 1..3 /\ apiCalls = attempt)

\* C13 amended (SpecSynth): with the API credential an invocation makes at
\* least one and at most three external calls, one per attempt: the call of
\* attempt k is the k-th call.  Without the credential it makes no call and
\* fails at once with 'Missing GEMINI_API_KEY'.
C13_CallsWhenKeyed ==
    /\ apiCalls <= 3
    /\ gPc = "fetch" => apiCalls = attempt
    /\ gPc = "backoff" => apiCalls = attempt - 1
    /\ (Ended /\ apiKey) => (apiCalls \in 1..3 /\ apiCalls = attempt)
    /\ (gPc # "idle" /\ ~apiKey)
          => (gPc = "thrown" /\ apiCalls = 0 /\ gResult = Threw(ErrMissingKey))

\* An invocation without the credential has failed without a call.
C13_Witness ==
    /\ ~apiKey /\ gPc = "thrown" /\ apiCalls = 0
    /\ gResult = Threw(ErrMissingKey)

\* The stages of a request, numbered in their order: 0 not arrived,
\* 1 Received (authorized, the user image not yet validated), 2 Validated
\* (the user image decoded, the overlay fetches under way), 3 ImagesResolved,
\* 4 Synthesizing, 5 Completed or Failed.
StageOf(pc) ==
    CASE pc = "idle" -> 0
      [] pc \in {"handler", "studio", "validate"} -> 1
      [] pc = "fetching" -> 2
      [] pc = "resolved" -> 3
      [] pc = "synth" -> 4
      [] pc = "done" -> 5

C14_InvokedOnceWhenReady ==
    /\ Len(invocations) <= 1
    /\ gPc # "idle" => invocations # <<>>
    /\ hPc = "synth" => invocations # <<>>
    /\ invocations # <<>>
          => /\ extensionId \in AllowList
             /\ userInlinePart.tag = "image" /\ parseDataUri(actualUserImage).ok
             /\ Len(invocations[1]) >= 1 /\ invocations[1] = overlayInlineParts
    /\ StageOf(hPc) \in 2..4 => userInlinePart.tag = "image"
    /\ StageOf(hPc) \in 1..4 => extensionId \in AllowList

C14_StageStep ==
    /\ StageOf(hPc') >= StageOf(hPc)
    /\ hPc' = "synth" /\ hPc # "synth" => hPc = "resolved"
    /\ hPc' = "resolved" /\ hPc # "resolved" => hPc \in {"validate", "fetching"}
    /\ hPc = "synth" => hPc' \in {"synth", "done"}
    /\ invocations' # invocations
          => (hPc = "resolved" /\ hPc' = "synth" /\ invocations = <<>>)
    /\ gPc = "idle" /\ gPc' # "idle" => invocations' # invocations

\* C14 (Spec): the stages of a request only follow one another in the order
\* Received, Validated, ImagesResolved, Synthesizing, Completed or Failed; the
\* synthesis client is invoked at most once per request, on the step from
\* ImagesResolved to Synthesizing, and only when authorization passed, the user
\* image decoded and at least one overlay image was resolved; after a failure
\* of the synthesis the request ends.
C14_StagesInOrder == []C14_InvokedOnceWhenReady /\ [][C14_StageStep]_vars

\* The synthesis failed after three calls and the request ended, Failed, with
\* the one invocation.
C14_Witness ==
    /\ hPc = "done" /\ gPc = "thrown" /\ apiCalls = 3
    /\ Len(invocations) = 1
    /\ responses = <<Reply(429, "RATE_LIMITED")>>

\* What the first three of the entries give when each is decoded on its own.
DecodedEach(items) ==
    LET taken == SubSeq(items, 1, IF Len(items) < 3 THEN Len(items) ELSE 3)
    IN  SelectSeq([i \in DOMAIN taken |->
                     IF parseDataUri(taken[i]).ok
                     THEN Image(parseDataUri(taken[i]).mimeType, parseDataUri(taken[i]).base64)
                     ELSE Null],
                  LAMBDA x : x # Null)

\* The overlay resolution of the request is over.
ResolutionOver == userInlinePart.tag = "image" /\ hPc \in {"resolved", "synth", "done"}

\* C15 (Spec, SpecSimple): in overlay resolution the failure of one entry
\* drops that entry only.  Once the user image has decoded and the resolution
\* is over, the overlay list holds every entry among the first 3 that
\* succeeded, in order: every inline entry that decodes, or the result of every
\* fetch that gave an image, all of the first 3 having been decoded or
\* fetched; and the request has not failed and goes on to the synthesis when
\* there is one such entry.
C15_FailureDropsOnlyEntry ==
    ResolutionOver
        => /\ IsNonEmptyArray(req.overlayData)
                 => /\ overlayInlineParts = DecodedEach(req.overlayData.items)
                    /\ Len(decoded) = 1 + Cardinality(FirstThree(req.overlayData.items))
           /\ results # <<>>
                 => /\ overlayInlineParts = SelectSeq(results, LAMBDA x : x # Null)
                    /\ Len(results) = Cardinality(FirstThree(req.overlayUrls.items))
           /\ (hPc = "done" /\ overlayInlineParts # <<>>) => invocations # <<>>
           /\ (hPc = "done" /\ IsNonEmptyArray(req.overlayData)
                 /\ DecodedEach(req.overlayData.items) # <<>>) => invocations # <<>>

\* C16 (SpecSynth): no delay precedes attempt 1; attempt n, for n in 2..3, is
\* preceded by a delay of 1000 * 2^(n-1) ms, the k-th delay waited being the
\* one before attempt k + 1; and at most one external call of the invocation
\* is in flight at any time, namely while the client waits for its answer.
C16_BackoffAndOneInFlight ==
    /\ inFlight \in {0, 1}
    /\ inFlight = 1 <=> gPc = "fetch"
    /\ apiCalls = 0 => delays = <<>>
    /\ apiCalls >= 1 => Len(delays) = apiCalls - 1
    /\ \A k \in DOMAIN delays : delays[k] = 1000 * 2 ^ ((k + 1) - 1)
    /\ gPc = "fetch" => Len(delays) = attempt - 1
    /\ gPc = "backoff" => (attempt \in 2..3 /\ Len(delays) = attempt - 2)

\* The third call is in flight, after the two delays.
C16_Witness ==
    /\ gPc = "fetch" /\ attempt = 3 /\ inFlight = 1
    /\ delays = <<2000, 4000>>

\* C17 (FairSpec): when every external call ends, every request, authorized
\* or not, comes to have its response, and by then the invocation of the
\* synthesis client, if the request led to one, has ended: it returned a
\* result or threw an error, after three attempts at most.
C17_Terminates ==
    <>(/\ hPc = "done" /\ Len(responses) = 1
       /\ gPc \in {"idle", "returned", "thrown"}
       /\ gPc = "idle" <=> invocations = <<>>
       /\ apiCalls <= 3 /\ inFlight = 0)

\* A request was answered with the result of the third attempt.
C17_Witness ==
    /\ hPc = "done" /\ gPc = "returned" /\ apiCalls = 3
    /\ Len(responses) = 1 /\ responses[1].ok

\* The request carries no caller identity: no extensionId in the body and no
\* x-mm-extension-id header.
NoIdentity == req.bodyId = UNDEF /\ req.headerId = UNDEF

\* CHROME_EXTENSION_IDS is unset, or is set to the empty string, whose split
\* at the commas is the list of the one empty string.
AllowListUnsetOrEmpty == ~envIds.set \/ envIds.fields = <<"">>

Rejected403 == responses = <<Reply(403, "INVALID_EXTENSION_ID")>> /\ hPc = "done"

\* C18 (Spec): authorization fails closed: a request without a caller
\* identity is answered 403 whatever the allow-list is, and when the
\* allow-list is unset or empty every request is answered 403 whatever
\* identity it carries in the body or in the header.
C18_FailClosed ==
    /\ (Arrived /\ NoIdentity) => Rejected403
    /\ (Arrived /\ AllowListUnsetOrEmpty) => Rejected403

\* The part of C18 that holds: without an identity, or with the allow-list
\* unset, the request is answered 403.
RejectedWithoutIdentityOrList ==
    /\ (Arrived /\ NoIdentity) => Rejected403
    /\ (Arrived /\ ~envIds.set) => Rejected403

====
